---- MODULE Spec2Model ----
(***************************************************************************)
(* Model of the AI-structure-fetch pipeline of examredy-backend:           *)
(*   src/services/aiService.js  generateMCQInitial, fetchAIStructure,      *)
(*                              fallbackMock, fallbackMockStructure        *)
(*   src/routes/aiFetch.js      the /api/ai-fetch/* handlers               *)
(*   src/routes/admin.js        the provider registry and /ai-fetch/*      *)
(*                                                                         *)
(* JavaScript strings are TLA+ strings (TLC evaluates Len, SubSeq and \o   *)
(* on them); every other JavaScript value is a tagged record, so that a    *)
(* provider payload of any shape is a value the model can hold.            *)
(***************************************************************************)
EXTENDS Integers, Sequences, FiniteSets, TLC

VARIABLES
    ai_providers,   \* the ai_providers table: id -> row
    call,           \* the service call in progress or just returned
    db,             \* the taxonomy tables: table name -> set of rows
    req             \* the route request in progress or just answered

vars == <<ai_providers, call, db, req>>

(***************************************************************************)
(* JavaScript values                                                       *)
(***************************************************************************)
Undef == [t |-> "undef"]
Null == [t |-> "null"]
Num(n) == [t |-> "num", v |-> n]
Str(s) == [t |-> "str", v |-> s]
Bool(b) == [t |-> "bool", v |-> b]
\* An array is the sequence of its elements.
Arr(seq) == [t |-> "arr", v |-> seq]
\* An object is the sequence of its <<key, value>> pairs in insertion order
\* (keys that look like integers, which JavaScript orders first, are not used).
Obj(pairs) == [t |-> "obj", v |-> pairs]

\* ToBoolean: what `!x` and `a || b` test.
Truthy(x) ==
    CASE x.t = "undef" -> FALSE
      [] x.t = "null" -> FALSE
      [] x.t = "bool" -> x.v
      [] x.t = "num" -> x.v # 0
      [] x.t = "str" -> x.v # ""
      [] OTHER -> TRUE

\* a || b
Or(a, b) == IF Truthy(a) THEN a ELSE b

IsArray(x) == x.t = "arr"

\* typeof x
TypeOf(x) ==
    CASE x.t = "undef" -> "undefined"
      [] x.t = "null" -> "object"
      [] x.t = "bool" -> "boolean"
      [] x.t = "num" -> "number"
      [] x.t = "str" -> "string"
      [] OTHER -> "object"

Min(a, b) == IF a < b THEN a ELSE b

(***************************************************************************)
(* Strings                                                                 *)
(***************************************************************************)
CharAt(s, i) == IF i >= 1 /\ i <= Len(s) THEN SubSeq(s, i, i) ELSE ""

\* s.startsWith(p)
StartsWith(s, p) == Len(s) >= Len(p) /\ SubSeq(s, 1, Len(p)) = p

\* s.includes(p)
Includes(s, p) ==
    \E i \in 1..(Len(s) - Len(p) + 1) : SubSeq(s, i, i + Len(p) - 1) = p

\* White space as String.prototype.trim and JSON see it (the JSON subset).
WhiteSpace == {" ", "\n", "\t", "\r"}

RECURSIVE TrimStart(_)
TrimStart(s) ==
    IF s # "" /\ CharAt(s, 1) \in WhiteSpace
    THEN TrimStart(SubSeq(s, 2, Len(s)))
    ELSE s

RECURSIVE TrimEnd(_)
TrimEnd(s) ==
    IF s # "" /\ CharAt(s, Len(s)) \in WhiteSpace
    THEN TrimEnd(SubSeq(s, 1, Len(s) - 1))
    ELSE s

\* s.trim()
Trim(s) == TrimEnd(TrimStart(s))

\* The positions where the literal p occurs in s.
Occurrences(s, p) ==
    {i \in 1..(Len(s) - Len(p) + 1) : SubSeq(s, i, i + Len(p) - 1) = p}

\* s.replace(/p/g, ''): every match of the literal p, left to right, removed.
RECURSIVE RemoveAll(_, _)
RemoveAll(s, p) ==
    LET occ == Occurrences(s, p)
    IN  IF occ = {} THEN s
        ELSE LET i == CHOOSE k \in occ : \A m \in occ : k <= m
             IN  SubSeq(s, 1, i - 1)
                     \o RemoveAll(SubSeq(s, i + Len(p), Len(s)), p)

Digits == <<"0", "1", "2", "3", "4", "5", "6", "7", "8", "9">>
DigitChars == {Digits[i] : i \in 1..10}
DigitValue(c) == CHOOSE d \in 0..9 : Digits[d + 1] = c

\* String(n) for an integer n
RECURSIVE NatToString(_)
NatToString(n) ==
    IF n < 10 THEN Digits[n + 1]
    ELSE NatToString(n \div 10) \o Digits[(n % 10) + 1]

IntToString(n) == IF n < 0 THEN "-" \o NatToString(-n) ELSE NatToString(n)

UpperCase == "ABCDEFGHIJKLMNOPQRSTUVWXYZ"
LowerCase == "abcdefghijklmnopqrstuvwxyz"
LowerOf == [c \in {CharAt(UpperCase, i) : i \in 1..26} |->
               CharAt(LowerCase, CHOOSE i \in 1..26 : CharAt(UpperCase, i) = c)]
LowerChar(c) == IF c \in DOMAIN LowerOf THEN LowerOf[c] ELSE c

\* s.toLowerCase(), for the ASCII letters (halving keeps the recursion flat).
RECURSIVE ToLower(_)
ToLower(s) ==
    IF Len(s) = 0 THEN ""
    ELSE IF Len(s) = 1 THEN LowerChar(s)
    ELSE ToLower(SubSeq(s, 1, Len(s) \div 2))
             \o ToLower(SubSeq(s, (Len(s) \div 2) + 1, Len(s)))

\* s.substring(0, n)
Substring0(s, n) == SubSeq(s, 1, Min(n, Len(s)))

(***************************************************************************)
(* JSON.parse, for the subset of JSON the payloads of this model use:      *)
(* null, true, false, integers, strings with the escapes \" \\ \/ \n,      *)
(* arrays and objects, with white space between tokens. Anything else      *)
(* (and any text left after the value) is a SyntaxError.                   *)
(***************************************************************************)
ParseFail == [ok |-> FALSE]
ParseOk(v, pos) == [ok |-> TRUE, val |-> v, pos |-> pos]

RECURSIVE SkipWs(_, _)
SkipWs(s, i) ==
    IF i <= Len(s) /\ CharAt(s, i) \in WhiteSpace THEN SkipWs(s, i + 1) ELSE i

\* The digits from position i on: <<value, next position>>.
RECURSIVE ParseDigits(_, _, _)
ParseDigits(s, i, acc) ==
    IF i <= Len(s) /\ CharAt(s, i) \in DigitChars
    THEN ParseDigits(s, i + 1, acc * 10 + DigitValue(CharAt(s, i)))
    ELSE <<acc, i>>

\* A number whose first character (a digit or "-") is at position i.
ParseNumber(s, i) ==
    LET neg == CharAt(s, i) = "-"
        j == IF neg THEN i + 1 ELSE i
    IN  IF CharAt(s, j) \notin DigitChars THEN ParseFail
        ELSE IF CharAt(s, j) = "0" THEN ParseOk(Num(0), j + 1)
        ELSE LET d == ParseDigits(s, j, 0)
             IN  ParseOk(Num(IF neg THEN -d[1] ELSE d[1]), d[2])

\* The characters of a string literal from position i (after the opening
\* quote) to its closing quote, read a run of plain characters at a time:
\* the run ends at the first quote, backslash or control character.
RECURSIVE ParseChars(_, _, _)
ParseChars(s, i, acc) ==
    LET stops == {k \in i..Len(s) : CharAt(s, k) \in {"\"", "\\", "\n", "\t", "\r"}}
    IN  IF stops = {} THEN ParseFail
        ELSE LET k == CHOOSE m \in stops : \A n \in stops : m <= n
                 run == acc \o SubSeq(s, i, k - 1)
                 c == CharAt(s, k)
             IN  IF c = "\"" THEN ParseOk(run, k + 1)
                 ELSE IF c = "\\" THEN
                     LET e == CharAt(s, k + 1)
                     IN  IF e = "\"" \/ e = "\\" \/ e = "/" THEN ParseChars(s, k + 2, run \o e)
                         ELSE IF e = "n" THEN ParseChars(s, k + 2, run \o "\n")
                         ELSE ParseFail
                 ELSE ParseFail

\* obj[k] = v while an object literal is read: a repeated key keeps its
\* first position and takes the last value.
SetProp(pairs, k, v) ==
    IF \E n \in 1..Len(pairs) : pairs[n][1] = k
    THEN [n \in 1..Len(pairs) |-> IF pairs[n][1] = k THEN <<k, v>> ELSE pairs[n]]
    ELSE Append(pairs, <<k, v>>)

RECURSIVE ParseValue(_, _)
RECURSIVE ParseElements(_, _, _)
RECURSIVE ParseMembers(_, _, _)

\* The elements of an array after "[" or ",": position i is at an element.
ParseElements(s, i, acc) ==
    LET e == ParseValue(s, i)
    IN  IF ~e.ok THEN ParseFail
        ELSE LET j == SkipWs(s, e.pos)
                 c == CharAt(s, j)
             IN  IF c = "," THEN ParseElements(s, j + 1, Append(acc, e.val))
                 ELSE IF c = "]" THEN ParseOk(Arr(Append(acc, e.val)), j + 1)
                 ELSE ParseFail

\* The members of an object after "{" or ",": position i is at a key.
ParseMembers(s, i, acc) ==
    LET j == SkipWs(s, i)
    IN  IF CharAt(s, j) # "\"" THEN ParseFail
        ELSE LET k == ParseChars(s, j + 1, "")
             IN  IF ~k.ok THEN ParseFail
                 ELSE LET c == SkipWs(s, k.pos)
                      IN  IF CharAt(s, c) # ":" THEN ParseFail
                          ELSE LET e == ParseValue(s, c + 1)
                               IN  IF ~e.ok THEN ParseFail
                                   ELSE LET n == SkipWs(s, e.pos)
                                            d == CharAt(s, n)
                                            more == SetProp(acc, k.val, e.val)
                                        IN  IF d = "," THEN ParseMembers(s, n + 1, more)
                                            ELSE IF d = "}" THEN ParseOk(Obj(more), n + 1)
                                            ELSE ParseFail

ParseValue(s, i) ==
    LET j == SkipWs(s, i)
        c == CharAt(s, j)
    IN  IF c = "[" THEN
            (IF CharAt(s, SkipWs(s, j + 1)) = "]"
             THEN ParseOk(Arr(<<>>), SkipWs(s, j + 1) + 1)
             ELSE ParseElements(s, j + 1, <<>>))
        ELSE IF c = "{" THEN
            (IF CharAt(s, SkipWs(s, j + 1)) = "}"
             THEN ParseOk(Obj(<<>>), SkipWs(s, j + 1) + 1)
             ELSE ParseMembers(s, j + 1, <<>>))
        ELSE IF c = "\"" THEN
            (LET r == ParseChars(s, j + 1, "")
             IN  IF r.ok THEN ParseOk(Str(r.val), r.pos) ELSE ParseFail)
        ELSE IF c = "-" \/ c \in DigitChars THEN ParseNumber(s, j)
        ELSE IF SubSeq(s, j, Min(j + 3, Len(s))) = "null" THEN ParseOk(Null, j + 4)
        ELSE IF SubSeq(s, j, Min(j + 3, Len(s))) = "true" THEN ParseOk(Bool(TRUE), j + 4)
        ELSE IF SubSeq(s, j, Min(j + 4, Len(s))) = "false" THEN ParseOk(Bool(FALSE), j + 5)
        ELSE ParseFail

\* JSON.parse(text): [ok |-> TRUE, val |-> the value] or [ok |-> FALSE] for a
\* SyntaxError.
JSONParse(text) ==
    LET r == ParseValue(text, 1)
    IN  IF r.ok /\ SkipWs(text, r.pos) = Len(text) + 1
        THEN [ok |-> TRUE, val |-> r.val]
        ELSE ParseFail

(***************************************************************************)
(* Objects, completions                                                    *)
(***************************************************************************)
\* x.k for a key k that no prototype defines (mcqs, items, name, ...): the
\* own property of an object, undefined on any other value that is neither
\* null nor undefined.
Get(x, k) ==
    IF x.t = "obj" /\ \E n \in 1..Len(x.v) : x.v[n][1] = k
    THEN x.v[CHOOSE n \in 1..Len(x.v) : x.v[n][1] = k][2]
    ELSE Undef

\* x?.k
OptGet(x, k) == IF x.t \in {"undef", "null"} THEN Undef ELSE Get(x, k)

\* x?.[0]
OptFirst(x) ==
    CASE x.t = "arr" -> IF Len(x.v) > 0 THEN x.v[1] ELSE Undef
      [] x.t = "str" -> IF Len(x.v) > 0 THEN Str(CharAt(x.v, 1)) ELSE Undef
      [] OTHER -> Undef

\* Object.values(x) for x neither null nor undefined.
ObjectValues(x) ==
    CASE x.t = "obj" -> [n \in 1..Len(x.v) |-> x.v[n][2]]
      [] x.t = "arr" -> x.v
      [] x.t = "str" -> [n \in 1..Len(x.v) |-> Str(CharAt(x.v, n))]
      [] OTHER -> <<>>

\* seq.find(v => Array.isArray(v))
FindArray(seq) ==
    IF \E n \in 1..Len(seq) : IsArray(seq[n])
    THEN seq[CHOOSE n \in 1..Len(seq) :
                 IsArray(seq[n]) /\ \A m \in 1..(n - 1) : ~IsArray(seq[m])]
    ELSE Undef

\* seq[0]
FirstOf(seq) == IF Len(seq) > 0 THEN seq[1] ELSE Undef

\* How a block of code ends: with a value, or with a thrown Error.
Return(v) == [ok |-> TRUE, val |-> v]
Throw(msg) == [ok |-> FALSE, message |-> msg]

(***************************************************************************)
(* Messages of the errors the service can meet. The first two are the      *)
(* program's own; the others are the runtime's and the libraries'.         *)
(***************************************************************************)
MsgNotConfigured == "AI Provider not configured"
MsgEmptyStructure == "Empty AI response"
MsgEmptyMCQ == "AI Provider returned an empty response"
MsgSyntax == "Unexpected token in JSON"
MsgNullObject == "Cannot convert undefined or null to object"
MsgNullRead == "Cannot read properties of null"
MsgNotFunction == "is not a function"
MsgNetwork == "Network Error"
MsgStatus == "Request failed with status code 500"
MsgDatabase == "Connection terminated unexpectedly"

(***************************************************************************)
(* src/services/aiService.js                                               *)
(***************************************************************************)
BackTick == SubSeq("`'", 1, 1)
Fence == BackTick \o BackTick \o BackTick

\* A cleaning that removes the opening fence only.
CleanText_JsonFenceOnly(responseText) ==
    Trim(RemoveAll(responseText, Fence \o "json"))

\* responseText.replace(/```json/g, '').replace(/```/g, '').trim()
CleanText(responseText) ==
    Trim(RemoveAll(RemoveAll(responseText, Fence \o "json"), Fence))

\* A dialect test that knows one host only.
IsOpenAI_OpenRouterOnly(base_url) == Includes(base_url, "openrouter.ai")

\* base_url.includes('openrouter.ai') || base_url.includes('openai.com') || ...
IsOpenAI(base_url) ==
    \/ Includes(base_url, "openrouter.ai")
    \/ Includes(base_url, "openai.com")
    \/ Includes(base_url, "api.openai.com")

\* The text read from the provider's response, by the dialect of the request.
ResponseText(isOpenAI, data) ==
    IF isOpenAI
    THEN OptGet(OptGet(OptFirst(OptGet(data, "choices")), "message"), "content")
    ELSE OptGet(OptFirst(OptGet(OptGet(OptFirst(OptGet(data, "candidates")),
                                       "content"), "parts")), "text")

\* fallbackMock(topic, count)
MockMCQ(topic, i) ==
    Obj(<< <<"question", Str("[MOCK] " \o topic \o " practice question "
                              \o IntToString(i) \o "?")>>,
           <<"options", Arr(<<Str("Option 1"), Str("Option 2"),
                              Str("Option 3"), Str("Option 4")>>)>>,
           <<"correct_option", Num(0)>>,
           <<"explanation", Str("This is a fallback mock explanation for " \o topic
                                 \o ". Please check AI API configuration.")>>,
           <<"subject", Str(topic)>>,
           <<"chapter", Str("General")>> >>)

\* A mock list with one record more than asked for.
fallbackMock_OneExtra(topic, count) == Arr([i \in 1..(count + 1) |-> MockMCQ(topic, i)])

fallbackMock(topic, count) == Arr([i \in 1..count |-> MockMCQ(topic, i)])

\* A mock list without the diagnostic entry.
fallbackMockStructure_SamplesOnly(type, context, errorMsg) ==
    Arr(<< Obj(<< <<"name", Str("Sample " \o type \o " 1 (" \o context \o ")")>> >>),
           Obj(<< <<"name", Str("Sample " \o type \o " 2 (" \o context \o ")")>> >>) >>)

\* A mock list whose diagnostic entry does not carry the message.
fallbackMockStructure_UnknownMessage(type, context, errorMsg) ==
    Arr(<< Obj(<< <<"name", Str("DEBUG_ERROR: Unknown")>> >>),
           Obj(<< <<"name", Str("Sample " \o type \o " 1 (" \o context \o ")")>> >>),
           Obj(<< <<"name", Str("Sample " \o type \o " 2 (" \o context \o ")")>> >>) >>)

\* fallbackMockStructure(type, context, errorMsg)
fallbackMockStructure(type, context, errorMsg) ==
    Arr(<< Obj(<< <<"name", Str("DEBUG_ERROR: " \o errorMsg)>> >>),
           Obj(<< <<"name", Str("Sample " \o type \o " 1 (" \o context \o ")")>> >>),
           Obj(<< <<"name", Str("Sample " \o type \o " 2 (" \o context \o ")")>> >>) >>)

\* Array.isArray(parsedData) ? parsedData
\*   : (parsedData.mcqs || parsedData.questions
\*      || Object.values(parsedData).find(v => Array.isArray(v)) || [])
ShapeMCQ(parsedData) ==
    IF IsArray(parsedData) THEN Return(parsedData)
    ELSE IF parsedData.t = "null" THEN Throw(MsgNullRead)
    ELSE Return(Or(Or(Or(Get(parsedData, "mcqs"), Get(parsedData, "questions")),
                      FindArray(ObjectValues(parsedData))),
                   Arr(<<>>)))

\* A slice that ignores count.
Slice_IgnoringCount(mcqs, count) ==
    IF mcqs.t \in {"arr", "str"} THEN Return(mcqs) ELSE Throw(MsgNotFunction)

\* mcqs.slice(0, count), count >= 0: of an array, of a string; any other
\* value has no slice method.
Slice(mcqs, count) ==
    CASE mcqs.t = "arr" -> Return(Arr(SubSeq(mcqs.v, 1, Min(count, Len(mcqs.v)))))
      [] mcqs.t = "str" -> Return(Str(SubSeq(mcqs.v, 1, Min(count, Len(mcqs.v)))))
      [] OTHER -> Throw(MsgNotFunction)

\* Array.isArray(parsedData) ? parsedData
\*   : (Object.values(parsedData).find(val => Array.isArray(val))
\*      || parsedData.items || [])
ShapeStructure(parsedData) ==
    IF IsArray(parsedData) THEN Return(parsedData)
    ELSE IF parsedData.t = "null" THEN Throw(MsgNullObject)
    ELSE Return(Or(Or(FindArray(ObjectValues(parsedData)), Get(parsedData, "items")),
                   Arr(<<>>)))

\* String(item) of a value that is neither a string nor a non-null object.
JsString(item) ==
    CASE item.t = "num" -> IntToString(item.v)
      [] item.t = "bool" -> IF item.v THEN "true" ELSE "false"
      [] item.t = "null" -> "null"
      [] OTHER -> "undefined"

\* A callback that reads only the name field of an object element.
MapItem_NameOnly(item) ==
    IF TypeOf(item) = "string" THEN Obj(<< <<"name", item>> >>)
    ELSE IF TypeOf(item) = "object" /\ item # Null
    THEN Obj(<< <<"name", Or(Get(item, "name"), FirstOf(ObjectValues(item)))>> >>)
    ELSE Obj(<< <<"name", Str(JsString(item))>> >>)

\* The callback of data.map: one canonical item {name} per element.
MapItem(item) ==
    IF TypeOf(item) = "string" THEN Obj(<< <<"name", item>> >>)
    ELSE IF TypeOf(item) = "object" /\ item # Null
    THEN Obj(<< <<"name", Or(Or(Or(Get(item, "name"), Get(item, "title")),
                                Get(item, "label")),
                             FirstOf(ObjectValues(item)))>> >>)
    ELSE Obj(<< <<"name", Str(JsString(item))>> >>)

\* data.map(item => ...): only an array has a map method.
MapItems(data) ==
    IF IsArray(data)
    THEN Return(Arr([n \in 1..Len(data.v) |-> MapItem(data.v[n])]))
    ELSE Throw(MsgNotFunction)

\* Whether the code reaches axios.post: the lookup returned an active row
\* with a credential (and base_url is a string, so that .includes is there).
ReachesPost(lookup) ==
    /\ lookup.ok
    /\ Len(lookup.rows) > 0
    /\ Truthy(lookup.rows[1].api_key)
    /\ lookup.rows[1].base_url.t = "str"

\* The try block of fetchAIStructure. lookup is how the registry query ended,
\* http how axios.post ended (read only when the code reaches it).
fetchAIStructureTry(type, context, lookup, http) ==
    IF ~lookup.ok THEN Throw(lookup.message)
    ELSE IF Len(lookup.rows) = 0 \/ ~Truthy(lookup.rows[1].api_key)
    THEN Throw(MsgNotConfigured)
    ELSE IF lookup.rows[1].base_url.t # "str" THEN Throw(MsgNullRead)
    ELSE IF ~http.ok THEN Throw(http.message)
    ELSE LET responseText == ResponseText(IsOpenAI(lookup.rows[1].base_url.v), http.data)
         IN  IF ~Truthy(responseText) THEN Throw(MsgEmptyStructure)
             ELSE IF responseText.t # "str" THEN Throw(MsgNotFunction)
             ELSE LET parsed == JSONParse(CleanText(responseText.v))
                  IN  IF ~parsed.ok THEN Throw(MsgSyntax)
                      ELSE LET data == ShapeStructure(parsed.val)
                           IN  IF ~data.ok THEN data ELSE MapItems(data.val)

\* fetchAIStructure(type, context): the try block, and the catch that turns
\* every error into the mock list.
fetchAIStructure(type, context, lookup, http) ==
    CHOOSE out \in { IF r.ok THEN r
                      ELSE Return(fallbackMockStructure(type, context, r.message))
                      : r \in {fetchAIStructureTry(type, context, lookup, http)} } : TRUE

\* The try block of generateMCQInitial.
generateMCQInitialTry(topic, count, lookup, http) ==
    IF ~lookup.ok THEN Throw(lookup.message)
    ELSE IF Len(lookup.rows) = 0 \/ ~Truthy(lookup.rows[1].api_key)
    THEN Return(fallbackMock(topic, count))
    ELSE IF lookup.rows[1].base_url.t # "str" THEN Throw(MsgNullRead)
    ELSE IF ~http.ok THEN Throw(http.message)
    ELSE LET responseText == ResponseText(IsOpenAI(lookup.rows[1].base_url.v), http.data)
         IN  IF ~Truthy(responseText) THEN Throw(MsgEmptyMCQ)
             ELSE IF responseText.t # "str" THEN Throw(MsgNotFunction)
             ELSE LET parsed == JSONParse(CleanText(responseText.v))
                  IN  IF ~parsed.ok THEN Throw(MsgSyntax)
                      ELSE LET mcqs == ShapeMCQ(parsed.val)
                           IN  IF ~mcqs.ok THEN mcqs ELSE Slice(mcqs.val, count)

\* The default of the count parameter.
DefaultCount == 5

\* generateMCQInitial(topic, count = 5)
generateMCQInitial(topic, countArg, lookup, http) ==
    LET count == IF countArg = Undef THEN DefaultCount ELSE countArg.v
    IN  CHOOSE out \in { IF r.ok THEN r ELSE Return(fallbackMock(topic, count))
                          : r \in {generateMCQInitialTry(topic, count, lookup, http)} } : TRUE

\* The steps one call of fetchAIStructure or generateMCQInitial runs, in
\* order: the registry query, the prompt template, axios.post, JSON.parse.
\* Both functions have one query, one template, one axios.post (in either
\* branch of the dialect) and one JSON.parse, and no loop around them.
Steps_RetryingPost(lookup, http) ==
    IF ~ReachesPost(lookup) THEN <<"lookup">>
    ELSE IF ~http.ok THEN <<"lookup", "prompt", "post", "post">>
    ELSE LET responseText == ResponseText(IsOpenAI(lookup.rows[1].base_url.v), http.data)
         IN  IF ~Truthy(responseText) \/ responseText.t # "str"
             THEN <<"lookup", "prompt", "post">>
             ELSE <<"lookup", "prompt", "post", "parse">>

Steps(lookup, http) ==
    IF ~ReachesPost(lookup) THEN <<"lookup">>
    ELSE IF ~http.ok THEN <<"lookup", "prompt", "post">>
    ELSE LET responseText == ResponseText(IsOpenAI(lookup.rows[1].base_url.v), http.data)
         IN  IF ~Truthy(responseText) \/ responseText.t # "str"
             THEN <<"lookup", "prompt", "post">>
             ELSE <<"lookup", "prompt", "post", "parse">>

(***************************************************************************)
(* The provider registry (table ai_providers) and its admin routes.        *)
(* Requests are served one at a time here: a handler starts when no call   *)
(* and no request is in progress.                                          *)
(***************************************************************************)
NumProviders == 2
ProviderIds == 1..NumProviders

UrlOpenRouter == "https://openrouter.ai/api/v1"
UrlGemini == "https://generativelanguage.googleapis.com/v1beta/models"
BaseUrls == {Str(UrlOpenRouter), Str(UrlGemini)}
\* A credential column is NULL, empty or set.
ApiKeys == {Null, Str(""), Str("sk-live")}
ModelName == Str("model-1")

ProviderRow(base_url, api_key, is_active) ==
    [base_url |-> base_url, api_key |-> api_key, model_name |-> ModelName,
     is_active |-> is_active]

\* router.put('/ai-providers/:id'): one UPDATE of the row's columns, the
\* active flag among them.
PutAiProvider(id, base_url, api_key, is_active) ==
    /\ call.pc = "idle" /\ req.pc = "idle"
    /\ ai_providers' = [ai_providers EXCEPT ![id] = ProviderRow(base_url, api_key, is_active)]
    /\ UNCHANGED <<call, db, req>>

\* router.put('/ai-providers/:id/status'): when activating, every row is
\* set inactive first; then the row takes the flag.
PutAiProviderStatus(id, is_active) ==
    /\ call.pc = "idle" /\ req.pc = "idle"
    /\ ai_providers' =
           [p \in ProviderIds |->
               IF p = id THEN [ai_providers[p] EXCEPT !.is_active = is_active]
               ELSE IF is_active THEN [ai_providers[p] EXCEPT !.is_active = FALSE]
               ELSE ai_providers[p]]
    /\ UNCHANGED <<call, db, req>>

\* How 'SELECT * FROM ai_providers WHERE is_active = TRUE LIMIT 1' can end:
\* the query throws, or returns no row, or returns one of the active rows
\* (no ORDER BY: any of them).
Lookups(registry) ==
    {Throw(MsgDatabase)}
    \cup (IF \A p \in ProviderIds : ~registry[p].is_active
          THEN {[ok |-> TRUE, rows |-> <<>>]}
          ELSE {[ok |-> TRUE, rows |-> <<registry[p]>>] :
                    p \in {q \in ProviderIds : registry[q].is_active}})

(***************************************************************************)
(* The provider's answers                                                  *)
(***************************************************************************)
\* A response body of the chat-completion dialect, of the generate-content
\* dialect.
ChatBody(content) ==
    Obj(<< <<"choices", Arr(<<Obj(<< <<"message", Obj(<< <<"content", content>> >>)>> >>)>>)>> >>)
GenerateBody(text) ==
    Obj(<< <<"candidates",
             Arr(<<Obj(<< <<"content",
                            Obj(<< <<"parts", Arr(<<Obj(<< <<"text", text>> >>)>>)>> >>)>> >>)>>)>> >>)

\* Payload texts a structural fetch is tried on.
StructureTexts ==
    { "[\"CBSE\",\"ICSE\"]",
      "[]",
      "null",
      "7",
      "\"abc\"",
      "true",
      "not json",
      Fence \o "json\n[\"CBSE\"]\n" \o Fence,
      "{\"items\":[\"a\"]}",
      "{\"data\":[\"x\",\"y\"]}",
      "{\"other\":[\"x\"],\"items\":[\"y\"]}",
      "{\"a\":[\"x\"],\"mcqs\":[\"y\"]}",
      "{\"a\":[\"x\"],\"b\":[\"y\"]}",
      "{\"a\":1}",
      "{\"items\":\"text\"}",
      "{\"items\":5}",
      "[{\"name\":\"N\",\"title\":\"T\"},{\"title\":\"T\",\"label\":\"L\"},{\"label\":\"L\"}]",
      "[{\"id\":3,\"x\":\"V\"},{},[\"e\"],\"\"]",
      "[{\"name\":\"\",\"title\":\"T\"},{\"name\":0,\"label\":\"L\"}]",
      "[5,true,null,false,-2]",
      "[\"a\",\"b\",\"c\",\"d\",\"e\",\"f\",\"g\",\"h\",\"i\",\"j\",\"k\"]" }

\* One MCQ record as the provider writes it.
McqText(q, options, correct) ==
    "{\"question\":\"" \o q \o "\",\"options\":" \o options
        \o ",\"correct_option\":" \o correct \o "}"
FourOptions == "[\"a\",\"b\",\"c\",\"d\"]"
ThreeOptions == "[\"a\",\"b\",\"c\"]"
Q1 == McqText("q1", FourOptions, "0")
Q2 == McqText("q2", FourOptions, "3")
Q3 == McqText("q3", FourOptions, "1")
Q4 == McqText("q4", FourOptions, "2")

\* Payload texts an MCQ generation is tried on.
MCQTexts ==
    { "[" \o Q1 \o "]",
      "[" \o Q1 \o "," \o Q2 \o "," \o Q3 \o "]",
      "[" \o Q1 \o "," \o Q2 \o "," \o Q3 \o "," \o Q4 \o "," \o Q1 \o "," \o Q2 \o "]",
      "[" \o McqText("q5", ThreeOptions, "1") \o "]",
      "[" \o McqText("q6", FourOptions, "4") \o "]",
      "{\"mcqs\":[" \o Q1 \o "," \o Q2 \o "]}",
      "{\"questions\":[" \o Q2 \o "," \o Q1 \o "]}",
      "{\"meta\":[\"m\"],\"items\":[" \o Q1 \o "]}",
      "{\"meta\":[\"m\"],\"mcqs\":[" \o Q1 \o "]}",
      "{\"mcqs\":\"text\"}",
      "{\"questions\":5}",
      "{\"a\":[\"x\"],\"b\":[\"y\"]}",
      "{\"a\":1}",
      "[]",
      "null",
      "7",
      "\"abc\"",
      "not json" }

\* How axios.post can end: a transport error, a non-2xx status (axios
\* throws on both), or a 2xx response with a body: of either dialect around
\* a text, without any text, or of no known shape.
HttpFailures == {Throw(MsgNetwork), Throw(MsgStatus)}
HttpOk(data) == [ok |-> TRUE, data |-> data]
HttpOutcomes(texts) ==
    HttpFailures
    \cup {HttpOk(ChatBody(Str(t))) : t \in texts}
    \cup {HttpOk(GenerateBody(Str(t))) : t \in texts}
    \cup {HttpOk(ChatBody(Null)), HttpOk(GenerateBody(Str(""))),
          HttpOk(ChatBody(Num(5))), HttpOk(Obj(<<>>))}
\* The code did not reach axios.post.
NoPost == [ok |-> FALSE, message |-> "no request"]

(***************************************************************************)
(* Service calls                                                           *)
(***************************************************************************)
\* (type, context) pairs of structural fetches.
StructureArgs == {<<"boards", "State of Kerala">>, <<"Chapters", "Subject: Algebra">>}
Topics == {"Algebra"}
MaxCount == 1
CountArgs == {Undef} \cup {Num(n) : n \in 0..MaxCount}

Idle == [pc |-> "idle"]

\* A caller awaits fetchAIStructure(type, context).
CallFetchAIStructure ==
    /\ call.pc = "idle"
    /\ \E a \in StructureArgs, lookup \in Lookups(ai_providers) :
         \E http \in (IF ReachesPost(lookup) THEN HttpOutcomes(StructureTexts) ELSE {NoPost}) :
            \E steps \in {Steps(lookup, http)} :
            \E out \in {fetchAIStructure(a[1], a[2], lookup, http)} :
            call' = [pc |-> "returned", fn |-> "fetchAIStructure",
                     type |-> a[1], context |-> a[2],
                     lookup |-> lookup, http |-> http,
                     steps |-> steps, out |-> out]
    /\ UNCHANGED <<ai_providers, db, req>>

\* A caller awaits generateMCQInitial(topic, count).
CallGenerateMCQInitial ==
    /\ call.pc = "idle"
    /\ \E topic \in Topics, countArg \in CountArgs, lookup \in Lookups(ai_providers) :
         \E http \in (IF ReachesPost(lookup) THEN HttpOutcomes(MCQTexts) ELSE {NoPost}) :
            \E steps \in {Steps(lookup, http)} :
            \E out \in {generateMCQInitial(topic, countArg, lookup, http)} :
            call' = [pc |-> "returned", fn |-> "generateMCQInitial",
                     topic |-> topic, countArg |-> countArg,
                     lookup |-> lookup, http |-> http,
                     steps |-> steps, out |-> out]
    /\ UNCHANGED <<ai_providers, db, req>>

\* The caller takes the result.
ReturnToCaller ==
    /\ call.pc = "returned"
    /\ call' = Idle
    /\ UNCHANGED <<ai_providers, db, req>>

Tables == {"boards", "universities", "papers_stages", "streams", "subjects", "chapters"}

Init ==
    /\ ai_providers = [p \in ProviderIds |-> ProviderRow(Str(UrlGemini), Null, FALSE)]
    /\ call = Idle
    /\ db = [t \in Tables |-> {}]
    /\ req = Idle

AdminProviders ==
    \/ \E id \in ProviderIds, base_url \in BaseUrls, api_key \in ApiKeys, is_active \in BOOLEAN :
          PutAiProvider(id, base_url, api_key, is_active)
    \/ \E id \in ProviderIds, is_active \in BOOLEAN : PutAiProviderStatus(id, is_active)

Next ==
    \/ AdminProviders
    \/ CallFetchAIStructure
    \/ CallGenerateMCQInitial
    \/ ReturnToCaller

Spec == Init /\ [][Next]_vars

(***************************************************************************)
(* What a returned call was given                                          *)
(***************************************************************************)
Returned(fn) == call.pc = "returned" /\ call.fn = fn

\* The text the code reads from the provider's response.
TextRead(c) == ResponseText(IsOpenAI(c.lookup.rows[1].base_url.v), c.http.data)

\* The call got a provider response whose cleaned text is JSON.
GotJSON(c) ==
    /\ ReachesPost(c.lookup)
    /\ c.http.ok
    /\ TextRead(c).t = "str"
    /\ TextRead(c).v # ""
    /\ JSONParse(CleanText(TextRead(c).v)).ok

\* The parsed payload of such a call.
Payload(c) == JSONParse(CleanText(TextRead(c).v)).val

\* The count a generateMCQInitial call asked for.
CountOf(c) == IF c.countArg = Undef THEN DefaultCount ELSE c.countArg.v

\* The names of a list of canonical items.
NamesOf(list) == [n \in 1..Len(list.v) |-> Get(list.v[n], "name")]

DebugMarker == "DEBUG_ERROR"

(***************************************************************************)
(* C1: for every lookup outcome, provider-call outcome and payload,        *)
(* fetchAIStructure and generateMCQInitial both return a list and never    *)
(* throw to the caller.                                                    *)
(***************************************************************************)
C1_AlwaysReturnsList ==
    call.pc = "returned" => call.out.ok /\ IsArray(call.out.val)

(***************************************************************************)
(* C2: when the lookup finds no active provider, or a provider whose       *)
(* api_key is NULL or empty, fetchAIStructure returns a non-empty list     *)
(* whose first name begins with the debug-error marker.                    *)
(***************************************************************************)
NoCredential(lookup) ==
    lookup.ok /\ (lookup.rows = <<>> \/ lookup.rows[1].api_key \in {Null, Str("")})

C2_NoProviderGivesDebugMarker ==
    (Returned("fetchAIStructure") /\ NoCredential(call.lookup)) =>
        /\ call.out.ok
        /\ IsArray(call.out.val)
        /\ Len(call.out.val.v) > 0
        /\ NamesOf(call.out.val)[1].t = "str"
        /\ StartsWith(NamesOf(call.out.val)[1].v, DebugMarker)

\* An active provider with an empty credential was looked up, and the fetch
\* answered with the diagnostic entry first.
C2_Witness ==
    /\ Returned("fetchAIStructure")
    /\ call.lookup.ok
    /\ call.lookup.rows # <<>>
    /\ call.lookup.rows[1].api_key = Str("")
    /\ StartsWith(NamesOf(call.out.val)[1].v, DebugMarker)

(***************************************************************************)
(* C4: every MCQ record generateMCQInitial returns has exactly 4 options   *)
(* and a correct_option in 0..3, on the live path as on the fallback path. *)
(***************************************************************************)
ValidMCQ(r) ==
    /\ Get(r, "options").t = "arr"
    /\ Len(Get(r, "options").v) = 4
    /\ Get(r, "correct_option").t = "num"
    /\ Get(r, "correct_option").v \in 0..3

C4_MCQShape ==
    (Returned("generateMCQInitial") /\ IsArray(call.out.val)) =>
        \A n \in 1..Len(call.out.val.v) : ValidMCQ(call.out.val.v[n])

(***************************************************************************)
(* C6: shape detection follows the stated priority in both functions: a    *)
(* bare array is used directly; else the array of a field named mcqs,      *)
(* questions or items, even when another array-valued field comes first;   *)
(* else the only array-valued field.                                       *)
(***************************************************************************)
NamedKeys == {"mcqs", "questions", "items"}
ArrayFields(pd) == {n \in 1..Len(pd.v) : IsArray(pd.v[n][2])}
NamedArrayFields(pd) == {n \in ArrayFields(pd) : pd.v[n][1] \in NamedKeys}

\* The payload has one of the three recognized shapes (with at most one
\* named field, so that the array meant is unambiguous).
Recognized(pd) ==
    \/ IsArray(pd)
    \/ pd.t = "obj" /\ Cardinality(NamedArrayFields(pd)) = 1
    \/ pd.t = "obj" /\ NamedArrayFields(pd) = {} /\ Cardinality(ArrayFields(pd)) = 1

\* The array the stated priority picks from a recognized payload.
PriorityArray(pd) ==
    IF IsArray(pd) THEN pd
    ELSE IF NamedArrayFields(pd) # {}
    THEN pd.v[CHOOSE n \in NamedArrayFields(pd) : TRUE][2]
    ELSE pd.v[CHOOSE n \in ArrayFields(pd) : TRUE][2]

\* What each function returns once it has picked the array a.
StructureOf(a) == Arr([n \in 1..Len(a.v) |-> MapItem(a.v[n])])
FirstOfArray(a, count) == Arr(SubSeq(a.v, 1, Min(count, Len(a.v))))

C6_ShapePriority ==
    (call.pc = "returned" /\ GotJSON(call) /\ Recognized(Payload(call))) =>
        IF call.fn = "fetchAIStructure"
        THEN call.out.val = StructureOf(PriorityArray(Payload(call)))
        ELSE call.out.val = FirstOfArray(PriorityArray(Payload(call)), CountOf(call))

(***************************************************************************)
(* C7: for a parsed payload of none of the three recognized shapes (null,  *)
(* a number, a string, a boolean, an object without array-valued field,    *)
(* with several and no named key, or whose named field is not an array)    *)
(* the result is the empty list: no array picked among several, no mock.   *)
(***************************************************************************)
Unrecognized(pd) ==
    \/ pd.t \in {"null", "num", "str", "bool"}
    \/ pd.t = "obj" /\ NamedArrayFields(pd) = {} /\ Cardinality(ArrayFields(pd)) # 1

C7_UnrecognizedGivesEmpty ==
    (call.pc = "returned" /\ GotJSON(call) /\ Unrecognized(Payload(call))) =>
        call.out.val = Arr(<<>>)

(***************************************************************************)
(* C8: fetchAIStructure maps each element of the extracted array to one    *)
(* canonical item, same order and length: a string e to {name: e}; an      *)
(* object to the first present of its fields name, title, label, else to   *)
(* its first value; a number, boolean or null to {name: String(element)}.  *)
(***************************************************************************)
HasKey(e, k) == e.t = "obj" /\ \E n \in 1..Len(e.v) : e.v[n][1] = k

\* String(e) of a number, a boolean, null.
Stringified(e) ==
    CASE e.t = "num" -> Str(IntToString(e.v))
      [] e.t = "bool" -> Str(IF e.v THEN "true" ELSE "false")
      [] OTHER -> Str("null")

\* The name as claimed: the first field that is present decides.
PresentName(e) ==
    CASE e.t = "str" -> e
      [] e.t \in {"obj", "arr"} ->
            IF HasKey(e, "name") THEN Get(e, "name")
            ELSE IF HasKey(e, "title") THEN Get(e, "title")
            ELSE IF HasKey(e, "label") THEN Get(e, "label")
            ELSE FirstOf(ObjectValues(e))
      [] OTHER -> Stringified(e)

\* The name as amended: the first field whose value is truthy decides.
TruthyName(e) ==
    CASE e.t = "str" -> e
      [] e.t \in {"obj", "arr"} ->
            IF Truthy(Get(e, "name")) THEN Get(e, "name")
            ELSE IF Truthy(Get(e, "title")) THEN Get(e, "title")
            ELSE IF Truthy(Get(e, "label")) THEN Get(e, "label")
            ELSE FirstOf(ObjectValues(e))
      [] OTHER -> Stringified(e)

\* The call got JSON from which the code extracted an array.
ExtractedArray(c) ==
    /\ GotJSON(c)
    /\ ShapeStructure(Payload(c)).ok
    /\ IsArray(ShapeStructure(Payload(c)).val)
Extracted(c) == ShapeStructure(Payload(c)).val.v

\* The claim as stated.
C8_MapsFirstPresent ==
    (Returned("fetchAIStructure") /\ ExtractedArray(call)) =>
        /\ IsArray(call.out.val)
        /\ Len(call.out.val.v) = Len(Extracted(call))
        /\ \A n \in 1..Len(Extracted(call)) :
              call.out.val.v[n] = Obj(<< <<"name", PresentName(Extracted(call)[n])>> >>)

\* C8 as amended: an object element takes its name from the first of name,
\* title, label whose value is truthy (not "", 0, null, false), else from
\* its first value (undefined for an empty object); the rest as stated.
C8_MapsFirstTruthy ==
    (Returned("fetchAIStructure") /\ ExtractedArray(call)) =>
        /\ IsArray(call.out.val)
        /\ Len(call.out.val.v) = Len(Extracted(call))
        /\ \A n \in 1..Len(Extracted(call)) :
              call.out.val.v[n] = Obj(<< <<"name", TruthyName(Extracted(call)[n])>> >>)

\* An element whose name is present but falsy was mapped by its label.
C8_Witness ==
    /\ Returned("fetchAIStructure")
    /\ ExtractedArray(call)
    /\ \E n \in 1..Len(Extracted(call)) :
          /\ HasKey(Extracted(call)[n], "name")
          /\ ~Truthy(Get(Extracted(call)[n], "name"))
          /\ Truthy(Get(Extracted(call)[n], "label"))
          /\ Get(call.out.val.v[n], "name") = Get(Extracted(call)[n], "label")

(***************************************************************************)
(* C9: generateMCQInitial with count n on a response holding m records     *)
(* returns exactly the first min(n, m) records in their original order.    *)
(***************************************************************************)
\* The payload holds its records as a bare array, or as the mcqs or
\* questions array of an object with that one field.
HoldsRecords(pd) ==
    \/ IsArray(pd)
    \/ /\ pd.t = "obj"
       /\ Len(pd.v) = 1
       /\ pd.v[1][1] \in {"mcqs", "questions"}
       /\ IsArray(pd.v[1][2])
RecordsOf(pd) == IF IsArray(pd) THEN pd.v ELSE pd.v[1][2].v

C9_FirstMinRecords ==
    (Returned("generateMCQInitial") /\ GotJSON(call) /\ HoldsRecords(Payload(call))) =>
        /\ IsArray(call.out.val)
        /\ Len(call.out.val.v) = Min(CountOf(call), Len(RecordsOf(Payload(call))))
        /\ \A n \in 1..Len(call.out.val.v) :
              call.out.val.v[n] = RecordsOf(Payload(call))[n]

\* A response with more records than asked for was cut to the count.
C9_Witness ==
    /\ Returned("generateMCQInitial")
    /\ GotJSON(call)
    /\ HoldsRecords(Payload(call))
    /\ CountOf(call) >= 1
    /\ Len(RecordsOf(Payload(call))) > CountOf(call)
    /\ Len(call.out.val.v) = CountOf(call)

(***************************************************************************)
(* C10: fetchAIStructure, which asks the provider for exactly 10 items,    *)
(* never returns more than 10 items.                                       *)
(***************************************************************************)
\* "Generate a list of exactly 10 ${type}"
StructureCount == 10

C10_AtMostTen ==
    Returned("fetchAIStructure") =>
        IsArray(call.out.val) /\ Len(call.out.val.v) <= StructureCount

(***************************************************************************)
(* src/routes/aiFetch.js (the current handlers) and the /ai-fetch/*        *)
(* handlers of src/routes/admin.js.                                        *)
(*                                                                         *)
(* A row is [parent, name]: the parent key of the route (state_id,         *)
(* category_id, board_id, subject_id; 0 for streams, which has none) and   *)
(* the value handed to the INSERT as its name parameter.                   *)
(***************************************************************************)
\* /^(board|subject|chapter|class)\s+([0-9a-z])$/i.test(name.trim())
PlaceholderWords == {"board", "subject", "chapter", "class"}
AlnumChars == DigitChars \cup {CharAt(LowerCase, i) : i \in 1..26}
IsPlaceholder(name) ==
    \E t \in {ToLower(Trim(name))} :
        \E w \in PlaceholderWords :
           /\ StartsWith(t, w)
           /\ Len(t) >= Len(w) + 2
           /\ CharAt(t, Len(t)) \in AlnumChars
           /\ \A i \in (Len(w) + 1)..(Len(t) - 1) : CharAt(t, i) \in WhiteSpace

\* name.toLowerCase().includes('placeholder')
HasPlaceholderWord(name) == Includes(ToLower(name), "placeholder")

\* const nonSchoolKeywords = [...]
nonSchoolKeywords ==
    {"university", "joint entrance", "entrance examination", "jee", "neet",
     "council of higher", "technical education", "medical", "engineering",
     "college", "polytechnic", "distance education", "open university",
     "deemed", "affiliated"}

\* nonSchoolKeywords.some(kw => name.toLowerCase().includes(kw))
isNonSchoolBoard(name) ==
    \E lower \in {ToLower(name)} : \E kw \in nonSchoolKeywords : Includes(lower, kw)

\* (item.name || '').substring(0, n): only a string has a substring method.
NameUpTo(item, n) ==
    LET v == Or(Get(item, "name"), Str(""))
    IN  IF v.t = "str" THEN Return(Str(Substring0(v.v, n))) ELSE Throw(MsgNotFunction)

\* (item.name || '').trim().substring(0, n)
TrimmedNameUpTo(item, n) ==
    LET v == Or(Get(item, "name"), Str(""))
    IN  IF v.t = "str" THEN Return(Str(Substring0(Trim(v.v), n))) ELSE Throw(MsgNotFunction)

NameLimit == 200
StreamNameLimit == 100

\* The routes: the six of /api/ai-fetch and the three of /api/admin/ai-fetch.
FetchRoutes == {"boards", "universities", "papers", "streams", "subjects", "chapters"}
AdminRoutes == {"admin/boards", "admin/subjects", "admin/chapters"}
Routes == FetchRoutes \cup AdminRoutes

\* The table a route inserts into.
TableOf(route) ==
    CASE route \in {"boards", "admin/boards"} -> "boards"
      [] route = "universities" -> "universities"
      [] route = "papers" -> "papers_stages"
      [] route = "streams" -> "streams"
      [] route \in {"subjects", "admin/subjects"} -> "subjects"
      [] OTHER -> "chapters"

\* The routes that wrap their loop in BEGIN ... COMMIT / ROLLBACK.
Transactional(route) == route \in FetchRoutes \ {"streams"}

\* The names a request carries in its body.
StateName == "Kerala"
CategoryName == "SSC"
BoardName == "CBSE"
ClassName == "Class 10"
StreamName == "Science"
SubjectName == "Trigonometry"

\* generateSchoolBoards, generateSchoolSubjects, generateSchoolChapters: the
\* (type, context) each of them awaits fetchAIStructure with.
generateSchoolBoards(stateName) ==
    <<"boards",
      "State: " \o stateName \o ", India. List exactly 10 REAL primary/secondary school boards (e.g., CBSE, ICSE, WBCHSE). No generic placeholders.">>

generateSchoolSubjects(boardName, className, streamName) ==
    <<"subjects",
      "Board: " \o boardName \o ", Class: " \o className \o ", Stream: "
          \o (IF streamName = "" THEN "General" ELSE streamName)
          \o ", India. \n    List the exactly 10 REAL official compulsory subjects found in the authorized syllabus (e.g., NCERT, State Board syllabus). \n    Exclude elective or minor subjects if possible. No generic placeholders.">>

generateSchoolChapters(subjectName, boardName, className) ==
    <<"chapters",
      "Return a list of OFFICIALLY CORRECT textbook chapters for the subject \"" \o subjectName \o "\" in " \o className \o " of the " \o boardName \o " board in India.\n    - Use real, specific chapter names from the authorized textbook syllabus for the current academic year.\n    - DO NOT use placeholders like \"Chapter 1\".\n    - Focus on core curriculum content.\n    Return only a JSON array of objects with a \"name\" key.\n    Example: [{\"name\": \"Trigonometry\"}, {\"name\": \"Calculus\"}]\n    Return ONLY JSON. STRICTLY NO MARKDOWN.">>

\* The (type, context) each handler awaits fetchAIStructure with.
FetchArgs(route) ==
    CASE route = "boards" ->
            <<"School Education Boards",
              "State of " \o StateName \o ", India. List ONLY boards that govern school education (Class 1 to Class 12), such as state secondary boards, CBSE, ICSE/CISCE, NIOS. DO NOT include university boards, entrance exam boards (JEE/NEET/WBJEE), council of higher education, technical boards, or any board not related to school-level (Class 1-12) education.">>
      [] route = "universities" ->
            <<"Universities",
              "State of " \o StateName \o ", India. Strictly provide original names only.">>
      [] route = "papers" ->
            <<"Papers/Stages",
              "Exam Category: " \o CategoryName \o ". Strictly original names.">>
      [] route = "streams" ->
            <<"Streams",
              "Board: \"" \o BoardName \o "\", " \o ClassName \o " (India). List ONLY the academic streams/branches offered at this class level by this board. Typical values: Science, Commerce, Arts/Humanities, Vocational. Return only what this board actually offers.">>
      [] route = "subjects" ->
            <<"Subjects",
              "Context: " \o BoardName \o ". Strictly original syllabus subject names only. No placeholders.">>
      [] route = "chapters" ->
            <<"Chapters",
              "Subject: " \o SubjectName \o ". Strictly original syllabus chapter names only.">>
      [] route = "admin/boards" -> generateSchoolBoards(StateName)
      [] route = "admin/subjects" -> generateSchoolSubjects(BoardName, ClassName, StreamName)
      [] OTHER -> generateSchoolChapters(SubjectName, BoardName, ClassName)

\* What a handler does with one fetched item before its INSERT: it throws,
\* skips the item (continue), or hands a name to the INSERT.
Skip == [ok |-> TRUE, skip |-> TRUE]
Keep(name) == [ok |-> TRUE, skip |-> FALSE, name |-> name]

\* The guard of the loops of /subjects and /chapters.
GenericSkip(name) ==
    IsPlaceholder(name) \/ HasPlaceholderWord(name) \/ StartsWith(name, "DEBUG_ERROR")

Prepare(route, item) ==
    IF route \in AdminRoutes THEN Keep(Get(item, "name"))
    ELSE IF route = "streams" THEN
        (LET n == TrimmedNameUpTo(item, StreamNameLimit)
         IN  IF ~n.ok THEN n
             ELSE IF ~Truthy(n.val) THEN Skip
             ELSE Keep(n.val))
    ELSE
        LET n == NameUpTo(item, NameLimit)
        IN  IF ~n.ok THEN n
            ELSE IF route = "boards" THEN
                (IF GenericSkip(n.val.v) \/ isNonSchoolBoard(n.val.v)
                 THEN Skip ELSE Keep(n.val))
            ELSE IF route = "universities" THEN
                (IF \/ Includes(ToLower(n.val.v), "university ")
                    \/ HasPlaceholderWord(n.val.v)
                    \/ StartsWith(n.val.v, "DEBUG_ERROR")
                 THEN Skip ELSE Keep(n.val))
            ELSE IF route = "papers" THEN Keep(n.val)
            ELSE IF GenericSkip(n.val.v) THEN Skip ELSE Keep(n.val)

\* One turn of the for-loop of a handler, on item: st carries the rows of
\* the route's table, the counters, the names handed to INSERT so far, and
\* the message of the error that left the loop ("" if none). failAt numbers
\* the INSERT on which the database throws (0: none does).
LoopStart(rows) == [rows |-> rows, saved |-> 0, existing |-> 0, inserts |-> <<>>, threw |-> ""]

LoopStep(route, parent, item, failAt, st) ==
    CHOOSE next \in
        { IF ~p.ok THEN [st EXCEPT !.threw = p.message]
          ELSE IF p.skip THEN st
          ELSE IF Len(st.inserts) + 1 = failAt
          THEN [st EXCEPT !.inserts = Append(@, p.name), !.threw = MsgDatabase]
          ELSE IF [parent |-> parent, name |-> p.name] \in st.rows  \* ON CONFLICT DO NOTHING
          THEN [st EXCEPT !.inserts = Append(@, p.name), !.existing = @ + 1]
          ELSE [st EXCEPT !.inserts = Append(@, p.name), !.saved = @ + 1,
                          !.rows = @ \cup {[parent |-> parent, name |-> p.name]}]
          : p \in {Prepare(route, item)} } : TRUE

\* The for-loop from item i on; an error leaves it.
RECURSIVE RunLoop(_, _, _, _, _, _)
RunLoop(route, parent, items, i, failAt, st) ==
    IF i > Len(items) \/ st.threw # "" THEN st
    ELSE CHOOSE end \in
            { RunLoop(route, parent, items, i + 1, failAt, next)
              : next \in {LoopStep(route, parent, items[i], failAt, st)} } : TRUE

Inserts(n) == [i \in 1..n |-> "INSERT"]

\* A handler that answers an error of its loop without ending the
\* transaction by ROLLBACK.
TransactionalHandler_NoRollback(rows, st) ==
    IF st.threw # ""
    THEN [rows |-> rows, inserts |-> st.inserts,
          sql |-> <<"BEGIN">> \o Inserts(Len(st.inserts)),
          log |-> <<>>, status |-> 500, saved |-> st.saved,
          existing |-> st.existing, error |-> st.threw]
    ELSE [rows |-> st.rows, inserts |-> st.inserts,
          sql |-> <<"BEGIN">> \o Inserts(Len(st.inserts)) \o <<"COMMIT", "SELECT">>,
          log |-> <<>>,
          status |-> IF st.saved = 0 /\ st.existing = 0 THEN 422 ELSE 200,
          saved |-> st.saved, existing |-> st.existing, error |-> ""]

\* A handler of /api/ai-fetch with a transaction (boards, universities,
\* papers, subjects, chapters) after its loop: COMMIT, or ROLLBACK and
\* rethrow; then 422 when nothing was saved and nothing existed. The
\* statements of one handler are taken to run in one transaction, so that a
\* ROLLBACK leaves the table (rows) as it was.
TransactionalHandler(rows, st) ==
    IF st.threw # ""
    THEN [rows |-> rows, inserts |-> st.inserts,
          sql |-> <<"BEGIN">> \o Inserts(Len(st.inserts)) \o <<"ROLLBACK">>,
          log |-> <<>>, status |-> 500, saved |-> st.saved,
          existing |-> st.existing, error |-> st.threw]
    ELSE [rows |-> st.rows, inserts |-> st.inserts,
          sql |-> <<"BEGIN">> \o Inserts(Len(st.inserts)) \o <<"COMMIT", "SELECT">>,
          log |-> <<>>,
          status |-> IF st.saved = 0 /\ st.existing = 0 THEN 422 ELSE 200,
          saved |-> st.saved, existing |-> st.existing, error |-> ""]

\* A /streams handler that answers 500 after any error.
StreamsHandler_NoFallback(st, recovers) ==
    IF st.threw # ""
    THEN [rows |-> st.rows, inserts |-> st.inserts,
          sql |-> [i \in 1..(2 * Len(st.inserts) - 1) |->
                      IF i % 2 = 1 THEN "INSERT" ELSE "SELECT"],
          log |-> <<>>, status |-> 500,
          saved |-> st.saved, existing |-> st.existing, error |-> st.threw]
    ELSE [rows |-> st.rows, inserts |-> st.inserts,
          sql |-> [i \in 1..(2 * Len(st.inserts)) |->
                      IF i % 2 = 1 THEN "INSERT" ELSE "SELECT"]
                      \o (IF Len(st.inserts) = 0 THEN <<"SELECT">> ELSE <<>>),
          log |-> <<>>, status |-> 200,
          saved |-> st.saved, existing |-> st.existing, error |-> ""]

\* POST /api/ai-fetch/streams after its loop: no transaction; each INSERT
\* is followed by a SELECT of the row; an error ends in the fallback SELECT,
\* and in 500 only when that one throws too (recovers = FALSE).
StreamsHandler(st, recovers) ==
    IF st.threw # ""
    THEN [rows |-> st.rows, inserts |-> st.inserts,
          sql |-> [i \in 1..(2 * Len(st.inserts) - 1) |->
                      IF i % 2 = 1 THEN "INSERT" ELSE "SELECT"] \o <<"SELECT">>,
          log |-> <<>>, status |-> IF recovers THEN 200 ELSE 500,
          saved |-> st.saved, existing |-> st.existing, error |-> st.threw]
    ELSE [rows |-> st.rows, inserts |-> st.inserts,
          sql |-> [i \in 1..(2 * Len(st.inserts)) |->
                      IF i % 2 = 1 THEN "INSERT" ELSE "SELECT"]
                      \o (IF Len(st.inserts) = 0 THEN <<"SELECT">> ELSE <<>>),
          log |-> <<>>, status |-> 200,
          saved |-> st.saved, existing |-> st.existing, error |-> ""]

\* A handler of /api/admin/ai-fetch after its loop: no transaction and no
\* guard on the name; a 'success' row in ai_fetch_logs after the loop, an
\* 'error' row (when that INSERT itself succeeds) after an error.
AdminHandler(st, recovers) ==
    IF st.threw # ""
    THEN [rows |-> st.rows, inserts |-> st.inserts,
          sql |-> Inserts(Len(st.inserts)) \o <<"INSERT">>,
          log |-> IF recovers THEN <<"error">> ELSE <<>>,
          status |-> 500, saved |-> st.saved, existing |-> st.existing,
          error |-> st.threw]
    ELSE [rows |-> st.rows, inserts |-> st.inserts,
          sql |-> Inserts(Len(st.inserts)) \o <<"INSERT", "SELECT">>,
          log |-> <<"success">>, status |-> 200,
          saved |-> st.saved, existing |-> st.existing, error |-> ""]

\* SELECT * FROM streams WHERE LOWER(name) = LOWER($1) LIMIT 1, among the
\* rows visible: with no ORDER BY the row is any of those that match, the
\* one of this very name (exact) or another.
SelectStream(visible, name, exact) ==
    LET others == CHOOSE set \in
                      { {row \in visible : row.name # name /\ ToLower(row.name.v) = lower}
                        : lower \in {ToLower(name.v)} } : TRUE
    IN  IF exact \/ others = {} THEN [parent |-> 0, name |-> name]
        ELSE CHOOSE row \in others : TRUE

\* The streams of the response of /streams: the rows the SELECTs of the
\* loop returned, in the order of the loop; all rows of the table when the
\* loop returned none or an error was caught; nothing when the fallback
\* query threw as well. rows is the table before the request.
NoStreams == [sent |-> FALSE, all |-> FALSE, rows |-> {}, list |-> <<>>]
StreamsResponse(rows, st, recovers, exact) ==
    IF st.threw # ""
    THEN (IF recovers THEN [sent |-> TRUE, all |-> TRUE, rows |-> st.rows, list |-> <<>>]
          ELSE NoStreams)
    ELSE IF Len(st.inserts) = 0
    THEN [sent |-> TRUE, all |-> TRUE, rows |-> st.rows, list |-> <<>>]
    ELSE [sent |-> TRUE, all |-> FALSE, rows |-> {},
          list |-> [n \in 1..Len(st.inserts) |->
                       SelectStream(rows \cup {[parent |-> 0, name |-> st.inserts[k]] : k \in 1..n},
                                    st.inserts[n], exact)]]

\* What a handler leaves once its loop has ended in st.
Handler(route, rows, st, recovers) ==
    IF Transactional(route) THEN TransactionalHandler(rows, st)
    ELSE IF route = "streams" THEN StreamsHandler(st, recovers)
    ELSE AdminHandler(st, recovers)

(***************************************************************************)
(* Requests to the fetch routes                                            *)
(***************************************************************************)
\* The texts a provider answers a structural fetch with.
RouteTexts ==
    { "[\"CBSE\",\"ICSE\"]",
      "[\"CBSE\",\"CBSE\"]",
      "[]",
      "[\"\"]",
      "[\"   \"]",
      "[{}]",
      "[{\"name\":5}]",
      "[\"CBSE\",{\"name\":5}]",
      "[\"Board 1\",\"placeholder topic\",\"Calicut University\",\"Kerala University of Health\"]",
      "[{\"name\":\"Introduction to Trigonometric Ratios\"},{\"name\":\"Chapter 1\"},{\"name\":\"placeholder topic\"}]",
      "[\"CBSE\",\"Delhi University\",\"ICSE\"]",
      "[\"West Bengal Council of Higher Secondary Education\"]",
      "[\"Subject _\",\"class a\"]",
      "[\"Science\",\"science\"]",
      "[\"  Physics  \",\"Integrated Vocational Programme in Applied Sciences, Commerce Humanities and Information Technology with Elective Modules in Agriculture Fisheries Tourism Hospitality Health Care Retail Management Banking Insurance Automobile Engineering\"]",
      "null" }

\* How axios.post ends for a request of a route: an error, or a body of the
\* dialect of the provider the lookup returned.
RouteOutcomes(lookup) ==
    HttpFailures
    \cup {HttpOk(IF IsOpenAI(lookup.rows[1].base_url.v)
                 THEN ChatBody(Str(t)) ELSE GenerateBody(Str(t))) : t \in RouteTexts}

\* The parent key a request names; streams has none.
ParentIds == {1}
ParentOf(route, parent) == IF route = "streams" THEN 0 ELSE parent

MaxRows == 1
MaxFailAt == 1
TotalRows(d) ==
    Cardinality(d["boards"]) + Cardinality(d["universities"])
    + Cardinality(d["papers_stages"]) + Cardinality(d["streams"])
    + Cardinality(d["subjects"]) + Cardinality(d["chapters"])

\* One request to a route, from its arrival to its response.
Handle(route) ==
    /\ call.pc = "idle"
    /\ req.pc = "idle"
    /\ TotalRows(db) < MaxRows
    /\ \E parent \in ParentIds, lookup \in Lookups(ai_providers),
          failAt \in 0..MaxFailAt, recovers \in BOOLEAN, exact \in BOOLEAN :
         \E http \in (IF ReachesPost(lookup) THEN RouteOutcomes(lookup) ELSE {NoPost}) :
            \E items \in {fetchAIStructure(FetchArgs(route)[1], FetchArgs(route)[2],
                                             lookup, http).val} :
            \E st \in {RunLoop(route, ParentOf(route, parent), items.v, 1, failAt,
                                LoopStart(db[TableOf(route)]))} :
            \E r \in {Handler(route, db[TableOf(route)], st, recovers)} :
                /\ db' = [db EXCEPT ![TableOf(route)] = r.rows]
                /\ req' = [pc |-> "responded", route |-> route,
                           lookup |-> lookup, http |-> http, items |-> items,
                           inserts |-> r.inserts, sql |-> r.sql, log |-> r.log,
                           status |-> r.status, saved |-> r.saved,
                           existing |-> r.existing, error |-> r.error,
                           recovers |-> recovers,
                           streams |-> IF route = "streams"
                                       THEN StreamsResponse(db[TableOf(route)], st, recovers, exact)
                                       ELSE NoStreams]
    /\ UNCHANGED <<ai_providers, call>>

PostBoards == Handle("boards")
PostUniversities == Handle("universities")
PostPapers == Handle("papers")
PostStreams == Handle("streams")
PostSubjects == Handle("subjects")
PostChapters == Handle("chapters")
AdminAiFetchBoards == Handle("admin/boards")
AdminAiFetchSubjects == Handle("admin/subjects")
AdminAiFetchChapters == Handle("admin/chapters")

\* The response has been sent.
Respond ==
    /\ req.pc = "responded"
    /\ req' = Idle
    /\ UNCHANGED <<ai_providers, call, db>>

\* The registries the requests are served under: no active provider, or one
\* active provider with a credential.
RouteRegistries ==
    { [p \in ProviderIds |-> ProviderRow(Str(UrlGemini), Null, FALSE)],
      [p \in ProviderIds |->
          IF p = 1 THEN ProviderRow(Str(UrlOpenRouter), Str("sk-live"), TRUE)
          ELSE ProviderRow(Str(UrlGemini), Null, FALSE)] }

InitRoutes ==
    /\ ai_providers \in RouteRegistries
    /\ call = Idle
    /\ db = [t \in Tables |-> {}]
    /\ req = Idle

NextRoutes ==
    \/ PostBoards
    \/ PostUniversities
    \/ PostPapers
    \/ PostStreams
    \/ PostSubjects
    \/ PostChapters
    \/ AdminAiFetchBoards
    \/ AdminAiFetchSubjects
    \/ AdminAiFetchChapters
    \/ Respond

SpecRoutes == InitRoutes /\ [][NextRoutes]_vars

(***************************************************************************)
(* C3, C5                                                                  *)
(***************************************************************************)
Responded == req.pc = "responded"
IsDebugName(v) == v.t = "str" /\ StartsWith(v.v, DebugMarker)

\* C3: no row whose name begins with "DEBUG_ERROR" is ever inserted into a
\* taxonomy table, on any fetch route.
C3_NoDebugRowStored ==
    \A t \in Tables : \A row \in db[t] : ~IsDebugName(row.name)

\* C5: every name a handler hands to an INSERT is a string with a character
\* other than whitespace, and no handler is aborted by the name of an item.
ProperName(v) == v.t = "str" /\ Trim(v.v) # ""
C5_OnlyProperNamesInserted ==
    Responded =>
        /\ \A i \in 1..Len(req.inserts) : ProperName(req.inserts[i])
        /\ req.error # MsgNotFunction

(***************************************************************************)
(* C11 .. C20                                                              *)
(***************************************************************************)
\* ^(board|subject|chapter|class)\s+\w$ without regard to case: one keyword,
\* white space, then one letter, digit or underscore.
WordChars == AlnumChars \cup {"_"}
MatchesPlaceholderPattern(s) ==
    \E t \in {ToLower(s)} :
        \E w \in PlaceholderWords :
           /\ StartsWith(t, w)
           /\ Len(t) >= Len(w) + 2
           /\ CharAt(t, Len(t)) \in WordChars
           /\ \A i \in (Len(w) + 1)..(Len(t) - 1) : CharAt(t, i) \in WhiteSpace

\* C11: no row of a taxonomy table has a name matching
\* ^(board|subject|chapter|class)\s+\w$, whatever route inserted it.
C11_NoPlaceholderPatternStored ==
    \A t \in Tables : \A row \in db[t] :
        ~(row.name.t = "str" /\ MatchesPlaceholderPattern(row.name.v))

\* The provider answered with a list of objects, each with a string name.
ChapterRoutes == {"chapters", "admin/chapters"}
IsNameObject(v) == v.t = "obj" /\ HasKey(v, "name") /\ Get(v, "name").t = "str"
NameObjectList(c) ==
    /\ GotJSON(c)
    /\ IsArray(Payload(c))
    /\ \A n \in 1..Len(Payload(c).v) : IsNameObject(Payload(c).v[n])
PayloadNames(c) == [n \in 1..Len(Payload(c).v) |-> Get(Payload(c).v[n], "name")]

\* The generic rules as the specification words them.
GenericallyKept(v) ==
    ~MatchesPlaceholderPattern(v.v) /\ ~Includes(ToLower(v.v), "placeholder")

\* C12: on both chapter routes, when the provider answers with a list of
\* {name} objects and no statement fails, the names handed to INSERT are, in
\* order, exactly those that neither match the placeholder pattern nor
\* contain "placeholder".
C12_ChaptersPersistFilteredNames ==
    (Responded /\ req.route \in ChapterRoutes /\ NameObjectList(req) /\ req.error = "") =>
        req.inserts = SelectSeq(PayloadNames(req), GenericallyKept)

\* The twelve keywords the specification lists for boards.
ListedKeywords ==
    {"university", "joint entrance", "council of higher education",
     "technical education", "medical", "engineering", "college", "polytechnic",
     "distance education", "open university", "deemed", "affiliated"}
HasListedKeyword(v) ==
    \E lower \in {ToLower(v.v)} : \E kw \in ListedKeywords : Includes(lower, kw)
BoardRoutes == {"boards", "admin/boards"}

\* The provider answered with a list of strings.
StringList(c) ==
    /\ GotJSON(c)
    /\ IsArray(Payload(c))
    /\ \A n \in 1..Len(Payload(c).v) : Payload(c).v[n].t = "str"
BoardKept(v) == GenericallyKept(v) /\ ~HasListedKeyword(v)

\* C13: on a boards fetch, when the provider answers with a list of strings
\* and no statement fails, the names handed to INSERT are, in order, exactly
\* those that pass the generic rules and contain none of the twelve listed
\* keywords.
C13_BoardsPersistSchoolNames ==
    (Responded /\ req.route \in BoardRoutes /\ StringList(req) /\ req.error = "") =>
        req.inserts = SelectSeq(Payload(req).v, BoardKept)

\* C14: after any sequence of PUT /ai-providers/:id and
\* PUT /ai-providers/:id/status, at most one provider has is_active = TRUE.
ActiveProviders == {p \in ProviderIds : ai_providers[p].is_active}
C14_AtMostOneActive == Cardinality(ActiveProviders) <= 1

\* The provider was called and the call failed, or the text read from its
\* response is empty or missing, or the cleaned text is not JSON.
ProviderFailed(c) ==
    /\ ReachesPost(c.lookup)
    /\ \/ ~c.http.ok
       \/ ~Truthy(TextRead(c))
       \/ TextRead(c).t = "str" /\ ~JSONParse(CleanText(TextRead(c).v)).ok

\* The message of the error behind such a failure.
UnderlyingMessage(c) ==
    IF ~c.http.ok THEN c.http.message
    ELSE IF ~Truthy(TextRead(c)) THEN MsgEmptyStructure
    ELSE MsgSyntax

\* C15: when the provider call fails, or the extracted text is empty or
\* missing, or the cleaned text is not JSON, fetchAIStructure returns three
\* items: the first named "DEBUG_ERROR: " followed by the error's message, the
\* other two naming the requested type and the context.
C15_FailureGivesFallbackOfThree ==
    (Returned("fetchAIStructure") /\ ProviderFailed(call)) =>
        /\ call.out.ok
        /\ IsArray(call.out.val)
        /\ Len(call.out.val.v) = 3
        /\ NamesOf(call.out.val)[1] = Str("DEBUG_ERROR: " \o UnderlyingMessage(call))
        /\ \A n \in 2..3 :
              /\ NamesOf(call.out.val)[n].t = "str"
              /\ Includes(NamesOf(call.out.val)[n].v, call.type)
              /\ Includes(NamesOf(call.out.val)[n].v, call.context)

\* A provider text that is not JSON came back as the fallback of three.
C15_Witness ==
    /\ Returned("fetchAIStructure")
    /\ ReachesPost(call.lookup)
    /\ call.http.ok
    /\ TextRead(call).t = "str"
    /\ ~JSONParse(CleanText(TextRead(call).v)).ok
    /\ Len(call.out.val.v) = 3
    /\ NamesOf(call.out.val)[1] = Str("DEBUG_ERROR: " \o MsgSyntax)

\* generateMCQInitial fell back: the lookup threw or gave no provider with a
\* credential, or the provider call or the parse of its text failed.
MCQFellBack(c) == ~c.lookup.ok \/ NoCredential(c.lookup) \/ ProviderFailed(c)

MockShaped(rec, topic) ==
    /\ rec.t = "obj"
    /\ IsArray(Get(rec, "options"))
    /\ Len(Get(rec, "options").v) = 4
    /\ Get(rec, "correct_option") = Num(0)
    /\ Get(rec, "subject") = Str(topic)

\* C16: every fallback of generateMCQInitial for count n has exactly n
\* records, each with 4 options, correct_option 0 and the topic as subject.
C16_FallbackHasCountRecords ==
    (Returned("generateMCQInitial") /\ MCQFellBack(call)) =>
        /\ call.out.ok
        /\ IsArray(call.out.val)
        /\ Len(call.out.val.v) = CountOf(call)
        /\ \A i \in 1..Len(call.out.val.v) : MockShaped(call.out.val.v[i], call.topic)

\* A failed provider call with count 1 came back as one mock record.
C16_Witness ==
    /\ Returned("generateMCQInitial")
    /\ ProviderFailed(call)
    /\ call.countArg = Num(1)
    /\ Len(call.out.val.v) = 1
    /\ MockShaped(call.out.val.v[1], call.topic)

\* The filter of a route as a function of a list of names: the names its
\* loop hands to INSERT when it is given these names as items and no
\* statement fails.
AsItems(names) == [n \in 1..Len(names) |-> Obj(<< <<"name", names[n]>> >>)]
FilterOf(route, names) ==
    RunLoop(route, 0, AsItems(names), 1, 0, LoopStart({})).inserts

\* C17: the filter of a route, applied to the names it produced, returns
\* them unchanged.
C17_FilterIdempotent ==
    (Responded /\ req.error = "") =>
        FilterOf(req.route, req.inserts) = req.inserts

\* sub is made of elements of list, unchanged and in the order of list.
IsSubsequence(sub, list) ==
    \E f \in [1..Len(sub) -> 1..Len(list)] :
        /\ \A i \in 1..Len(sub) : sub[i] = list[f[i]]
        /\ \A i, j \in 1..Len(sub) : i < j => f[i] < f[j]

\* C18: the names a handler hands to INSERT are names of the fetched items,
\* character for character, in the order of the fetched list.
C18_FilterOnlyDrops ==
    Responded => IsSubsequence(req.inserts, NamesOf(req.items))

\* C19: when a handler's filter skipped every fetched item and no statement
\* failed, the handler does not answer with an error status.
C19_AllFilteredIsNotAnError ==
    (Responded /\ req.error = "" /\ Len(req.items.v) > 0 /\ req.inserts = <<>>) =>
        req.status < 400

\* The order the steps of a fetch are to be taken in.
StepOrder == <<"lookup", "prompt", "post", "parse">>
IsPrefix(s, t) == Len(s) <= Len(t) /\ s = SubSeq(t, 1, Len(s))
Posts(c) == Cardinality({i \in 1..Len(c.steps) : c.steps[i] = "post"})

\* The lookup returned an active provider with a credential.
HasCredential(lookup) ==
    lookup.ok /\ lookup.rows # <<>> /\ Truthy(lookup.rows[1].api_key)

RECURSIVE ReplaceSlashes(_)
ReplaceSlashes(s) ==
    LET m == {i \in 1..(Len(s) - 2) : CharAt(s, i) # ":" /\ SubSeq(s, i + 1, i + 2) = "//"}
    IN  IF m = {} THEN s
        ELSE LET i == CHOOSE k \in m : \A n \in m : k <= n
             IN  SubSeq(s, 1, i) \o "/" \o ReplaceSlashes(SubSeq(s, i + 3, Len(s)))

\* `${base_url}/chat/completions`.replace(/([^:])\/\//g, '$1/')
ChatEndpoint(base_url) == ReplaceSlashes(base_url \o "/chat/completions")

\* `${base_url}/${model_name}:generateContent?key=${api_key}`
GenerateEndpoint(base_url, model_name, api_key) ==
    base_url \o "/" \o model_name \o ":generateContent?key=" \o api_key

\* The request axios.post is called with: its endpoint and the fields of
\* its body, by the dialect isOpenAI selects.
PostRequest(row) ==
    IF IsOpenAI(row.base_url.v)
    THEN [endpoint |-> ChatEndpoint(row.base_url.v),
          body |-> <<"model", "messages", "response_format">>,
          authorization |-> "Bearer " \o row.api_key.v]
    ELSE [endpoint |-> GenerateEndpoint(row.base_url.v, row.model_name.v, row.api_key.v),
          body |-> <<"contents", "generationConfig">>,
          authorization |-> ""]

\* cleanText, then JSON.parse(cleanText)
CleanParse(responseText) == JSONParse(CleanText(responseText))

\* Base URLs an administrator may store: four hosts, each with no, one,
\* two or three trailing slashes.
WireHosts ==
    { UrlOpenRouter, "https://api.openai.com/v1", UrlGemini, "https://llm.example.com/v1" }
TrailingSlashes == {"", "/", "//", "///"}
WireBases == {h \o t : h \in WireHosts, t \in TrailingSlashes}
WireModels == {"model-1", "gpt-4o-mini"}
WireKeys == {"sk-live", "sk-test"}
WireRows ==
    { [base_url |-> Str(b), api_key |-> Str(k), model_name |-> Str(m), is_active |-> TRUE] :
          b \in WireBases, k \in WireKeys, m \in WireModels }

\* Response bodies of either dialect carrying a list.
WireStructureText == "[\"CBSE\"]"
WireMCQText == "[" \o Q1 \o "]"
WireBodies(text) == {HttpOk(ChatBody(Str(text))), HttpOk(GenerateBody(Str(text)))}

\* Payloads a provider wraps in a fence, and the white space around them.
FencePayloads ==
    { "[\"CBSE\",\"ICSE\"]", "{\"items\":[\"a\"]}", "[]", "null", "not json",
      "[\"a" \o BackTick \o "b\"]", "[\"" \o Fence \o "\"]", "[1]" \o BackTick,
      "json[1]", "[\"x\"] " }
FenceSpace == {"", " ", "\n", " \n\t"}
Fenced(payload, before, inside, after) ==
    before \o Fence \o "json" \o inside \o payload \o inside \o Fence \o after

\* A caller awaits fetchAIStructure with the provider row in the registry.
WireFetchAIStructure ==
    /\ call.pc = "idle"
    /\ \E row \in WireRows, http \in WireBodies(WireStructureText) :
         \E lookup \in {[ok |-> TRUE, rows |-> <<row>>]} :
         \E request \in {PostRequest(row)} :
         \E out \in {fetchAIStructure("boards", "State of Kerala", lookup, http)} :
            call' = [pc |-> "returned", fn |-> "fetchAIStructure",
                     type |-> "boards", context |-> "State of Kerala",
                     lookup |-> lookup, http |-> http,
                     request |-> request, out |-> out]
    /\ UNCHANGED <<ai_providers, db, req>>

\* A caller awaits generateMCQInitial(topic).
WireGenerateMCQInitial ==
    /\ call.pc = "idle"
    /\ \E row \in WireRows, http \in WireBodies(WireMCQText) :
         \E lookup \in {[ok |-> TRUE, rows |-> <<row>>]} :
         \E request \in {PostRequest(row)} :
         \E out \in {generateMCQInitial("Algebra", Undef, lookup, http)} :
            call' = [pc |-> "returned", fn |-> "generateMCQInitial",
                     topic |-> "Algebra", countArg |-> Undef,
                     lookup |-> lookup, http |-> http,
                     request |-> request, out |-> out]
    /\ UNCHANGED <<ai_providers, db, req>>

\* The response text of a call is cleaned and parsed: a payload, bare or
\* wrapped in a fence.
CleanAndParse ==
    /\ call.pc = "idle"
    /\ \E payload \in FencePayloads, before, inside, after \in FenceSpace, fenced \in BOOLEAN :
         \E text \in {IF fenced THEN Fenced(payload, before, inside, after)
                      ELSE before \o payload \o after} :
         \E parsed \in {CleanParse(text)} :
            call' = [pc |-> "parsed", payload |-> payload, fenced |-> fenced,
                     text |-> text, parsed |-> parsed]
    /\ UNCHANGED <<ai_providers, db, req>>

WireDone ==
    /\ call.pc # "idle"
    /\ call' = Idle
    /\ UNCHANGED <<ai_providers, db, req>>

InitWire ==
    /\ ai_providers = [p \in ProviderIds |-> ProviderRow(Str(UrlGemini), Null, FALSE)]
    /\ call = Idle
    /\ db = [t \in Tables |-> {}]
    /\ req = Idle

NextWire ==
    \/ WireFetchAIStructure
    \/ WireGenerateMCQInitial
    \/ CleanAndParse
    \/ WireDone

SpecWire == InitWire /\ [][NextWire]_vars

(***************************************************************************)
(* PUT /ai-providers/:id/status statement by statement                     *)
(* (src/routes/admin.js): a handler awaits each of its two UPDATEs, and    *)
(* the statements of another request may run between them. req maps each   *)
(* handler to where it stands.                                             *)
(***************************************************************************)
NumHandlers == 2
Handlers == 1..NumHandlers

\* if (is_active) await query('UPDATE ai_providers SET is_active = FALSE')
StatusClearAll(h) ==
    /\ req[h].pc = "idle"
    /\ \E id \in ProviderIds :
         req' = [req EXCEPT ![h] = [pc |-> "cleared", id |-> id, is_active |-> TRUE]]
    /\ ai_providers' = [p \in ProviderIds |-> [ai_providers[p] EXCEPT !.is_active = FALSE]]
    /\ UNCHANGED <<call, db>>

\* await query('UPDATE ai_providers SET is_active = $1 WHERE id = $2'):
\* the second statement of an activating request, the only one of a
\* deactivating request.
StatusSetRow(h) ==
    /\ \/ /\ req[h].pc = "cleared"
          /\ ai_providers' = [ai_providers EXCEPT ![req[h].id].is_active = TRUE]
          /\ req' = [req EXCEPT ![h].pc = "updated"]
       \/ /\ req[h].pc = "idle"
          /\ \E id \in ProviderIds :
               /\ ai_providers' = [ai_providers EXCEPT ![id].is_active = FALSE]
               /\ req' = [req EXCEPT ![h] = [pc |-> "updated", id |-> id, is_active |-> FALSE]]
    /\ UNCHANGED <<call, db>>

\* res.json({ message: 'AI Provider status toggled' })
StatusRespond(h) ==
    /\ req[h].pc = "updated"
    /\ req' = [req EXCEPT ![h] = Idle]
    /\ UNCHANGED <<ai_providers, call, db>>

\* The registry before the requests: no provider active, or one.
ToggleRegistries ==
    { [p \in ProviderIds |-> ProviderRow(Str(UrlOpenRouter), Str("sk-live"), p = a)] :
          a \in 0..NumProviders }

InitToggle ==
    /\ ai_providers \in ToggleRegistries
    /\ call = Idle
    /\ db = [t \in Tables |-> {}]
    /\ req = [h \in Handlers |-> Idle]

NextToggle ==
    \/ \E h \in Handlers : StatusClearAll(h)
    \/ \E h \in Handlers : StatusSetRow(h)
    \/ \E h \in Handlers : StatusRespond(h)

SpecToggle == InitToggle /\ [][NextToggle]_vars

(***************************************************************************)
(* Two requests inserting into subjects, statement by statement:           *)
(* POST /api/ai-fetch/subjects (BEGIN, INSERT ... WHERE NOT EXISTS,        *)
(* COMMIT) and POST /api/admin/ai-fetch/subjects (INSERT ... ON CONFLICT   *)
(* (board_id, class_id, stream_id, name) DO NOTHING, no transaction).      *)
(*                                                                         *)
(* A row is [id, parent, stream_id, name]; parent stands for the pair      *)
(* (board_id, class_id). The ON CONFLICT clause of the admin route names   *)
(* the unique index of the table; as in PostgreSQL, a NULL in a key        *)
(* column makes the key distinct from every other, a statement sees the    *)
(* committed rows and the rows of its own transaction, and an INSERT whose *)
(* key another open transaction has inserted waits for that transaction.   *)
(***************************************************************************)
SubjectNames == {"Physics", "Biology"}
StreamIds == {Null, Num(1)}

\* The key of the unique index, and whether two rows collide on it.
UniqueKey(row) == <<row.parent, row.stream_id, row.name>>
Collides(a, b) == a.stream_id # Null /\ UniqueKey(a) = UniqueKey(b)

\* WHERE board_id = $3 AND class_id = $5
\*   AND (stream_id = $6 OR (stream_id IS NULL AND $6 IS NULL)) AND name = $1
Matches(row, new) ==
    row.parent = new.parent /\ row.stream_id = new.stream_id /\ row.name = new.name

\* The rows some other open transaction has inserted.
PendingOfOthers(h) == UNION {req[g].pending : g \in Handlers \ {h}}
RowCount == Cardinality(db["subjects"]) + Cardinality(UNION {req[g].pending : g \in Handlers})
NewRow(stream_id, name) ==
    [id |-> RowCount + 1, parent |-> 1, stream_id |-> stream_id, name |-> name]
Waiting == [pc |-> "idle", pending |-> {}]

\* await query('BEGIN') of /api/ai-fetch/subjects, the body read.
SubjectsBegin(h) ==
    /\ req[h].pc = "idle"
    /\ \E stream_id \in StreamIds, name \in SubjectNames :
         req' = [req EXCEPT ![h] = [pc |-> "begun", route |-> "subjects", pending |-> {},
                                    stream_id |-> stream_id, name |-> name]]
    /\ UNCHANGED <<ai_providers, call, db>>

\* INSERT INTO subjects (...) SELECT ... WHERE NOT EXISTS (...) RETURNING *
SubjectsInsert(h) ==
    /\ req[h].pc = "begun"
    /\ \E new \in {NewRow(req[h].stream_id, req[h].name)} :
         /\ \A row \in PendingOfOthers(h) : ~Collides(new, row)
         /\ IF \E row \in db["subjects"] \cup req[h].pending : Matches(row, new)
            THEN req' = [req EXCEPT ![h].pc = "looped"]
            ELSE req' = [req EXCEPT ![h].pc = "looped", ![h].pending = @ \cup {new}]
    /\ UNCHANGED <<ai_providers, call, db>>

\* await query('COMMIT'), and the response.
SubjectsCommit(h) ==
    /\ req[h].pc = "looped"
    /\ db' = [db EXCEPT !["subjects"] = @ \cup req[h].pending]
    /\ req' = [req EXCEPT ![h].pc = "responded", ![h].pending = {}]
    /\ UNCHANGED <<ai_providers, call>>

\* The INSERT ... ON CONFLICT (board_id, class_id, stream_id, name)
\* DO NOTHING of /api/admin/ai-fetch/subjects, and the response.
AdminSubjectsInsert(h) ==
    /\ req[h].pc = "idle"
    /\ \E stream_id \in StreamIds, name \in SubjectNames :
         \E new \in {NewRow(stream_id, name)} :
            /\ \A row \in PendingOfOthers(h) : ~Collides(new, row)
            /\ IF \E row \in db["subjects"] : Collides(new, row)
               THEN db' = db
               ELSE db' = [db EXCEPT !["subjects"] = @ \cup {new}]
            /\ req' = [req EXCEPT ![h] = [pc |-> "responded", route |-> "admin/subjects",
                                          pending |-> {}, stream_id |-> stream_id,
                                          name |-> name]]
    /\ UNCHANGED <<ai_providers, call>>

InitInserts ==
    /\ ai_providers \in RouteRegistries
    /\ call = Idle
    /\ db = [t \in Tables |-> {}]
    /\ req = [h \in Handlers |-> Waiting]

NextInserts ==
    \/ \E h \in Handlers : SubjectsBegin(h)
    \/ \E h \in Handlers : SubjectsInsert(h)
    \/ \E h \in Handlers : SubjectsCommit(h)
    \/ \E h \in Handlers : AdminSubjectsInsert(h)

SpecInserts == InitInserts /\ [][NextInserts]_vars

(***************************************************************************)
(* The generic admin routes PUT /approve/:table/:id and                    *)
(* DELETE /:table/:id (src/routes/admin.js). Here db holds the tables      *)
(* these routes can name, each row [id, is_approved], and the statements   *)
(* issued so far.                                                          *)
(***************************************************************************)
\* const allowedTables = [...] of PUT /approve/:table/:id
allowedTablesApprove ==
    {"boards", "universities", "subjects", "chapters", "papers_stages",
     "degree_types", "semesters"}

\* const allowedTables = [...] of DELETE /:table/:id
allowedTablesDelete == allowedTablesApprove \cup {"mcqs"}

\* A table name used as it came in the path.
actualTable_Verbatim(table) == table

\* const actualTable = table === 'mcqs' ? 'mcq_pool' : table
actualTable(table) == IF table = "mcqs" THEN "mcq_pool" ELSE table

\* The tables of the database these routes can reach or are kept from, and
\* the :table values a request may carry.
StoredTables == allowedTablesApprove \cup {"mcq_pool", "users", "ai_providers"}
TableParams == StoredTables \cup {"mcqs", "Boards", "boards; DROP TABLE users"}
ItemIds == {1, 2}
MaxStatements == 2

\* The effect of a statement on the tables.
Execute(tables, stmt) ==
    IF stmt.table \notin DOMAIN tables THEN tables
    ELSE IF stmt.verb = "DELETE"
    THEN [tables EXCEPT ![stmt.table] = {row \in @ : row.id # stmt.id}]
    ELSE [tables EXCEPT ![stmt.table] =
              {IF row.id = stmt.id THEN [row EXCEPT !.is_approved = stmt.is_approved]
               ELSE row : row \in @}]

\* What a generic route leaves: 400 and no statement, or the statement and 200.
Refuse(route, table) ==
    /\ req' = [pc |-> "responded", route |-> route, table |-> table,
               status |-> 400, sql |-> <<>>]
    /\ db' = db
Issue(route, table, stmt) ==
    /\ req' = [pc |-> "responded", route |-> route, table |-> table,
               status |-> 200, sql |-> <<stmt>>]
    /\ db' = [tables |-> Execute(db.tables, stmt), statements |-> Append(db.statements, stmt)]

\* router.put('/approve/:table/:id')
PutApprove ==
    /\ req.pc = "idle"
    /\ Len(db.statements) < MaxStatements
    /\ \E table \in TableParams, id \in ItemIds, is_approved \in BOOLEAN :
         IF table \notin allowedTablesApprove THEN Refuse("approve", table)
         ELSE Issue("approve", table,
                    [verb |-> "UPDATE", table |-> table, id |-> id,
                     is_approved |-> is_approved])
    /\ UNCHANGED <<ai_providers, call>>

\* router.delete('/:table/:id')
DeleteItem ==
    /\ req.pc = "idle"
    /\ Len(db.statements) < MaxStatements
    /\ \E table \in TableParams, id \in ItemIds :
         IF table \notin allowedTablesDelete THEN Refuse("delete", table)
         ELSE Issue("delete", table,
                    [verb |-> "DELETE", table |-> actualTable(table), id |-> id,
                     is_approved |-> FALSE])
    /\ UNCHANGED <<ai_providers, call>>

\* The tables before the requests: two rows each, not approved.
InitialTables == [t \in StoredTables |-> {[id |-> i, is_approved |-> FALSE] : i \in ItemIds}]

InitGeneric ==
    /\ ai_providers \in RouteRegistries
    /\ call = Idle
    /\ db = [tables |-> InitialTables, statements |-> <<>>]
    /\ req = Idle

NextGeneric ==
    \/ PutApprove
    \/ DeleteItem
    \/ Respond

SpecGeneric == InitGeneric /\ [][NextGeneric]_vars

(***************************************************************************)
(* C21 .. C30                                                              *)
(***************************************************************************)
\* The shape of a request: the chat-completion dialect posts model and
\* messages to .../chat/completions, the other posts contents to
\* ...:generateContent.
EndsWith(s, p) == Len(s) >= Len(p) /\ SubSeq(s, Len(s) - Len(p) + 1, Len(s)) = p
ChatShaped(r) ==
    /\ r.body = <<"model", "messages", "response_format">>
    /\ EndsWith(r.endpoint, "/chat/completions")
GenerateShaped(r) ==
    /\ r.body = <<"contents", "generationConfig">>
    /\ Includes(r.endpoint, ":generateContent?key=")
ChatHost(url) == Includes(url, "openrouter.ai") \/ Includes(url, "openai.com")

\* The call returned what the provider sent, not a fallback.
LiveAnswer(c) ==
    /\ c.out.ok
    /\ IsArray(c.out.val)
    /\ Len(c.out.val.v) = 1
    /\ IF c.fn = "fetchAIStructure"
       THEN NamesOf(c.out.val)[1] = Str("CBSE")
       ELSE Get(c.out.val.v[1], "question") = Str("q1")

\* C21: the request has the chat-completion shape exactly when the base_url
\* contains "openrouter.ai" or "openai.com", whatever the model, the
\* credential and the function, and the other shape otherwise; the response
\* text is read by the path of the dialect the request was made in.
C21_DialectFromBaseUrl ==
    (call.pc = "returned") =>
        /\ ChatShaped(call.request) <=> ChatHost(call.lookup.rows[1].base_url.v)
        /\ ~ChatShaped(call.request) => GenerateShaped(call.request)
        /\ LiveAnswer(call) <=>
              Truthy(ResponseText(ChatShaped(call.request), call.http.data))

\* An openai.com provider was asked in the chat dialect and its answer read.
C21_Witness ==
    /\ call.pc = "returned"
    /\ Includes(call.lookup.rows[1].base_url.v, "openai.com")
    /\ ChatShaped(call.request)
    /\ LiveAnswer(call)

\* C22: cleaning and parsing a payload wrapped in a json fence, with any
\* white space around the fence, gives what cleaning and parsing the bare
\* payload gives: the same value or the same failure.
C22_FenceIsTransparent ==
    (call.pc = "parsed" /\ call.fenced) => call.parsed = CleanParse(call.payload)

\* A fenced payload with white space inside the fence parsed to a value.
C22_Witness ==
    /\ call.pc = "parsed"
    /\ call.fenced
    /\ call.text = "\n" \o Fence \o "json\n[\"CBSE\",\"ICSE\"]\n" \o Fence \o " "
    /\ call.parsed = [ok |-> TRUE, val |-> Arr(<<Str("CBSE"), Str("ICSE")>>)]

\* C25: the endpoint of a chat-completion request ends in /chat/completions
\* and has no "//" but the one after the colon of the scheme.
C25_NoDoubleSlash ==
    (call.pc = "returned" /\ ChatHost(call.lookup.rows[1].base_url.v)) =>
        /\ EndsWith(call.request.endpoint, "/chat/completions")
        /\ \A i \in 1..(Len(call.request.endpoint) - 1) :
              SubSeq(call.request.endpoint, i, i + 1) = "//" =>
                  i > 1 /\ CharAt(call.request.endpoint, i - 1) = ":"

\* C24: when no status request is between its two statements, at most one
\* provider is active, whatever the interleaving of the requests was.
NoToggleInFlight == \A h \in Handlers : req[h].pc # "cleared"
C24_TogglesLeaveOneActive ==
    NoToggleInFlight => Cardinality(ActiveProviders) <= 1

\* C23: no two rows of subjects have the same parent, stream and name (two
\* NULL streams counting as the same), whatever the interleaving.
SameSubject(a, b) ==
    a.parent = b.parent /\ a.stream_id = b.stream_id /\ a.name = b.name
C23_NoDuplicateRows ==
    \A a, b \in db["subjects"] : a.id # b.id => ~SameSubject(a, b)

\* How often a statement occurs in the statements a handler issued.
Issued(r, stmt) == Cardinality({i \in 1..Len(r.sql) : r.sql[i] = stmt})

\* An item whose name the filter step cannot take: item.name || '' is not a
\* string.
UnfilterableItem(item) == Truthy(Get(item, "name")) /\ Get(item, "name").t # "str"

FetchFellBack(c) == ~c.lookup.ok \/ NoCredential(c.lookup) \/ ProviderFailed(c)

\* C27: a request whose fetch fell back to the mock list persists no row:
\* it inserts none, or its transaction is rolled back.
C27_FallbackPersistsNothing ==
    (Responded /\ FetchFellBack(req)) =>
        req.saved = 0 \/ Issued(req, "ROLLBACK") = 1

\* C28: an admin /ai-fetch request whose fetch fell back to the mock list
\* writes no 'success' row to ai_fetch_logs.
LoggedSuccess(r) == \E i \in 1..Len(r.log) : r.log[i] = "success"
C28_NoSuccessLogOnFallback ==
    (Responded /\ req.route \in AdminRoutes /\ FetchFellBack(req)) => ~LoggedSuccess(req)

\* The fetched items hold no name /streams can use: each name is missing,
\* empty or white space.
NoUsableName(items) ==
    \A n \in 1..Len(items.v) :
        \/ ~Truthy(Get(items.v[n], "name"))
        \/ Get(items.v[n], "name").t = "str" /\ Trim(Get(items.v[n], "name").v) = ""

\* What /streams answers when it has no list of its own to send: 500
\* exactly when a step of its main path threw and the fallback query threw
\* too, 200 otherwise; all rows of streams when the main path threw or no
\* fetched name was usable.
StreamsFallsBack(r) ==
    /\ r.status = 500 <=> (r.error # "" /\ ~r.recovers)
    /\ r.status # 500 => r.status = 200 /\ r.streams.sent
    /\ (r.status = 200 /\ (r.error # "" \/ NoUsableName(r.items))) =>
          r.streams.all /\ r.streams.rows = db["streams"]

UntouchedTablesKept ==
    \A t \in StoredTables :
        (\A i \in 1..Len(db.statements) : db.statements[i].table # t) =>
            db.tables[t] = InitialTables[t]

\* C30: PUT /approve/:table/:id and DELETE /:table/:id issue one statement,
\* on the table named, when :table is in the route's whitelist, and answer
\* 400 with no statement otherwise; DELETE with table mcqs acts on mcq_pool
\* and on no other table.
C30_WhitelistGuardsStatements ==
    /\ UntouchedTablesKept
    /\ Responded =>
         LET allowed == IF req.route = "approve" THEN allowedTablesApprove
                        ELSE allowedTablesDelete
         IN  /\ req.table \notin allowed => req.status = 400 /\ req.sql = <<>>
             /\ req.table \in allowed =>
                   /\ req.status = 200
                   /\ Len(req.sql) = 1
                   /\ req.sql[1].verb = (IF req.route = "approve" THEN "UPDATE" ELSE "DELETE")
                   /\ req.sql[1].table = (IF req.table = "mcqs" THEN "mcq_pool" ELSE req.table)
                   /\ req.sql[1] = db.statements[Len(db.statements)]

\* DELETE /mcqs/1 removed row 1 of mcq_pool.
C30_Witness ==
    /\ Responded
    /\ req.route = "delete"
    /\ req.table = "mcqs"
    /\ req.sql[1].id = 1
    /\ db.tables["mcq_pool"] = {[id |-> 2, is_approved |-> FALSE]}

====
